---------------------------- MODULE Spec2Model ----------------------------
(***************************************************************************)
(* A model of the filter service of src/main.py: the threshold filters,    *)
(* the consistency validator, the two position-based duplicate resolvers   *)
(* and the per-page loop of filter_data.                                   *)
(*                                                                         *)
(* Numbers.  The source works on floats; the model works on integers in    *)
(* thousandths: a length of 0.1 m is 100, a thickness of 0.005 m is 5, an  *)
(* area of 0.1 m2 is 100 and a confidence of 0.3 is 300.  Font sizes,      *)
(* text lengths and pixel coordinates are kept as they are.                *)
(*                                                                         *)
(* Python values.  A dict, and an object of a pydantic class, is a         *)
(* function whose DOMAIN is the set of its keys (its attributes); an       *)
(* attribute whose value is None is a key left out of the DOMAIN, so that  *)
(* "x.k is None" and "d.get(k) is None" both read "k is not in DOMAIN".    *)
(* A list is a sequence, a str is a sequence of one-character strings, and *)
(* an object reference held in a list is a pair [ref, val]: ref is the     *)
(* index of the object in the argument list (its identity) and val is its  *)
(* content.  Attributes that no line of the source reads are left out.     *)
(***************************************************************************)
EXTENDS Integers, Sequences, FiniteSets, TLC

VARIABLES
    dedup,   \* one call of _remove_duplicate_symbols / _remove_duplicate_components
    filt,    \* one threshold filter applied to a list, then to its own output
    page,    \* one call of _filter_irrelevant_elements
    req      \* one call of filter_data

vars == <<dedup, filt, page, req>>

Idle == [pc |-> "idle"]

-----------------------------------------------------------------------------
(* Bounds of the model *)

MaxLen == 3

-----------------------------------------------------------------------------
(* Python helpers *)

\* d.get(k, default) on a dict d
Get(d, k, default) == IF k \in DOMAIN d THEN d[k] ELSE default

\* truth value of d.get(k) for an Optional[Dict]: None and {} are false
TruthyDict(d, k) == k \in DOMAIN d /\ DOMAIN d[k] # {}

\* truth value of d.k for an Optional[float]: None and 0.0 are false
TruthyNum(d, k) == k \in DOMAIN d /\ d[k] # 0

\* the dict {} and the records of a schema with some optional keys left out
EmptyDict == [k \in {} |-> 0]

Restrict(r, keys) == [k \in keys |-> r[k]]

WithOptional(full, optional) ==
    {Restrict(r, DOMAIN r \ out) : r \in full, out \in SUBSET optional}

Abs(n) == IF n < 0 THEN -n ELSE n

Range(s) == {s[k] : k \in 1..Len(s)}

SeqsUpTo(S, n) == UNION {[1..k -> S] : k \in 0..n}

-----------------------------------------------------------------------------
(* The duplicate resolver: _remove_duplicate_symbols and its twin          *)
(* _remove_duplicate_components, which differ in the names only.           *)

tolerance == 10

\* position_groups is an insertion-ordered dict from (x, y) to a list: a
\* sequence of [key, group] in insertion order.
DictSet(groups, key, value) ==
    IF \E g \in 1..Len(groups) : groups[g].key = key
    THEN [g \in 1..Len(groups) |->
             IF groups[g].key = key THEN [groups[g] EXCEPT !.group = value]
                                    ELSE groups[g]]
    ELSE Append(groups, [key |-> key, group |-> value])

\* the test with the y distance taken against the representative's x
SamePlaceCrossed(x, y, key) ==
    Abs(x - key[1]) < tolerance /\ Abs(y - key[1]) < tolerance

\* the test of the inner loop
SamePlace(x, y, key) ==
    Abs(x - key[1]) < tolerance /\ Abs(y - key[2]) < tolerance

\* the inner loop without its break: the last fitting group
RECURSIVE FindLastGroup(_, _, _, _)
FindLastGroup(groups, x, y, g) ==
    IF g > Len(groups) THEN 0
    ELSE LET later == FindLastGroup(groups, x, y, g + 1)
         IN  IF later # 0 THEN later
             ELSE IF SamePlace(x, y, groups[g].key) THEN g ELSE 0

\* the inner loop: the index of the group the break leaves it at, 0 if none
RECURSIVE FindGroup(_, _, _, _)
FindGroup(groups, x, y, g) ==
    IF g > Len(groups) THEN 0
    ELSE IF SamePlace(x, y, groups[g].key) THEN g
    ELSE FindGroup(groups, x, y, g + 1)

\* one iteration of the scan loop, on the object at index i of the list
ScanEntry(groups, items, i) ==
    LET item == [ref |-> i, val |-> items[i]]
    IN  IF ~TruthyDict(items[i], "position") THEN groups
        ELSE LET x == Get(Get(items[i], "position", EmptyDict), "x", 0)
                 y == Get(Get(items[i], "position", EmptyDict), "y", 0)
                 g == FindGroup(groups, x, y, 1)
             IN  IF g # 0
                 THEN [groups EXCEPT ![g].group = Append(@, item)]
                 ELSE DictSet(groups, <<x, y>>, <<item>>)

\* max(group, key=confidence): the first of the maximal members
RECURSIVE MaxFrom(_, _, _)
MaxFrom(group, k, best) ==
    IF k > Len(group) THEN best
    ELSE IF Get(group[k].val, "confidence", 0) > Get(best.val, "confidence", 0)
         THEN MaxFrom(group, k + 1, group[k])
         ELSE MaxFrom(group, k + 1, best)

\* max taking the last of the maximal members
RECURSIVE MaxFromLast(_, _, _)
MaxFromLast(group, k, best) ==
    IF k > Len(group) THEN best
    ELSE IF Get(group[k].val, "confidence", 0) >= Get(best.val, "confidence", 0)
         THEN MaxFromLast(group, k + 1, group[k])
         ELSE MaxFromLast(group, k + 1, best)

BestOfLast(group) == MaxFromLast(group, 2, group[1])

BestOf(group) == MaxFrom(group, 2, group[1])

\* one iteration of the selection loop
SelectGroup(unique, group) ==
    IF Len(group) > 1 THEN Append(unique, BestOf(group))
                      ELSE unique \o group

RECURSIVE ScanAll(_, _)
ScanAll(items, n) ==
    IF n = 0 THEN <<>> ELSE ScanEntry(ScanAll(items, n - 1), items, n)

RECURSIVE SelectAll(_, _)
SelectAll(groups, n) ==
    IF n = 0 THEN <<>> ELSE SelectGroup(SelectAll(groups, n - 1), groups[n].group)

\* the whole function, as the list of the objects it returns
RemoveDuplicates(items) ==
    IF items = <<>> THEN <<>>
    ELSE LET groups == ScanAll(items, Len(items))
         IN  SelectAll(groups, Len(groups))

Vals(refs) == [k \in 1..Len(refs) |-> refs[k].val]

RemoveDuplicateSymbols(symbols) == Vals(RemoveDuplicates(symbols))

RemoveDuplicateComponents(components) == Vals(RemoveDuplicates(components))

(* Inputs of the resolver *)

Positions ==
    { EmptyDict,
      [x |-> 0, y |-> 0], [x |-> 9, y |-> 3], [x |-> 18, y |-> 0],
      [y |-> 10] }

DedupItems ==
    WithOptional([type : {"socket"}, position : Positions,
                  confidence : {400, 900}],
                 {"position"})

InitDedup ==
    /\ dedup \in [pc : {"start"}, kind : {"symbols", "components"},
                  items : SeqsUpTo(DedupItems, MaxLen),
                  position_groups : {<<>>}, scan : {1}, sel : {1},
                  unique : {<<>>}]
    /\ filt = Idle /\ page = Idle /\ req = Idle

\* if not symbols: return []
EmptyCheck(kind) ==
    /\ dedup.pc = "start" /\ dedup.kind = kind
    /\ dedup' = [dedup EXCEPT !.pc = IF dedup.items = <<>> THEN "done" ELSE "scan"]
    /\ UNCHANGED <<filt, page, req>>

\* for symbol in symbols: ...
Scan(kind) ==
    /\ dedup.pc = "scan" /\ dedup.kind = kind
    /\ dedup.scan <= Len(dedup.items)
    /\ dedup' = [dedup EXCEPT
                   !.position_groups = ScanEntry(@, dedup.items, dedup.scan),
                   !.scan = @ + 1]
    /\ UNCHANGED <<filt, page, req>>

ScanDone(kind) ==
    /\ dedup.pc = "scan" /\ dedup.kind = kind
    /\ dedup.scan > Len(dedup.items)
    /\ dedup' = [dedup EXCEPT !.pc = "select"]
    /\ UNCHANGED <<filt, page, req>>

\* for group in position_groups.values(): ...
Select(kind) ==
    /\ dedup.pc = "select" /\ dedup.kind = kind
    /\ dedup.sel <= Len(dedup.position_groups)
    /\ dedup' = [dedup EXCEPT
                   !.unique = SelectGroup(@, dedup.position_groups[dedup.sel].group),
                   !.sel = @ + 1]
    /\ UNCHANGED <<filt, page, req>>

\* return unique_symbols
Return(kind) ==
    /\ dedup.pc = "select" /\ dedup.kind = kind
    /\ dedup.sel > Len(dedup.position_groups)
    /\ dedup' = [dedup EXCEPT !.pc = "done"]
    /\ UNCHANGED <<filt, page, req>>

SymbolsEmptyCheck == EmptyCheck("symbols")
SymbolsScan == Scan("symbols")
SymbolsScanDone == ScanDone("symbols")
SymbolsSelect == Select("symbols")
SymbolsReturn == Return("symbols")
ComponentsEmptyCheck == EmptyCheck("components")
ComponentsScan == Scan("components")
ComponentsScanDone == ScanDone("components")
ComponentsSelect == Select("components")
ComponentsReturn == Return("components")

NextDedup ==
    \/ SymbolsEmptyCheck \/ SymbolsScan \/ SymbolsScanDone
    \/ SymbolsSelect \/ SymbolsReturn
    \/ ComponentsEmptyCheck \/ ComponentsScan \/ ComponentsScanDone
    \/ ComponentsSelect \/ ComponentsReturn

SpecDedup == InitDedup /\ [][NextDedup]_vars

\* the step-wise run and the function agree
DedupAgrees ==
    dedup.pc = "done" => dedup.unique = RemoveDuplicates(dedup.items)

-----------------------------------------------------------------------------
(* The knowledge base constants, in thousandths where the source has a     *)
(* fraction                                                                *)

MIN_WALL_LENGTH == 100
MIN_WALL_THICKNESS == 5
MIN_ROOM_AREA == 100
MIN_COMPONENT_CONFIDENCE == 300
MIN_SYMBOL_CONFIDENCE == 300
MIN_TEXT_SIZE == 6
MAX_TEXT_LENGTH == 50

-----------------------------------------------------------------------------
(* The request schema: the attributes of each class that the source reads *)

WallFields == {"type", "thickness_meters", "properties", "wall_type"}
RoomFields == {"name", "room_type", "area_m2", "polygon"}
ComponentFields == {"type", "position", "confidence"}
SymbolFields == {"type", "position", "confidence"}
TextItemFields == {"text", "font_size"}

\* obj.dict(): the dict of the object's attributes
Dict(obj) == [k \in DOMAIN obj |-> obj[k]]

\* the construction of an object of a class from a dict: the declared
\* attributes are taken, any other key is ignored
Parse(d, fields) == Restrict(d, DOMAIN d \cap fields)

ParseAll(dicts, fields) == [k \in 1..Len(dicts) |-> Parse(dicts[k], fields)]

DictAll(objs) == [k \in 1..Len(objs) |-> Dict(objs[k])]

-----------------------------------------------------------------------------
(* str methods *)

Whitespace == {" ", "\t", "\n"}
Digits == {"0", "1", "2", "3", "4", "5", "6", "7", "8", "9"}

RECURSIVE LStrip(_)
LStrip(s) ==
    IF s # <<>> /\ s[1] \in Whitespace THEN LStrip(Tail(s)) ELSE s

RECURSIVE RStrip(_)
RStrip(s) ==
    IF s # <<>> /\ s[Len(s)] \in Whitespace
    THEN RStrip(SubSeq(s, 1, Len(s) - 1)) ELSE s

\* s.strip()
Strip(s) == RStrip(LStrip(s))

IsOther(c) == c \notin {".", ",", " "}

\* s.replace(".", "").replace(",", "").replace(" ", "")
Unpunctuated(s) == SelectSeq(s, IsOther)

\* s.isdigit(): false on the empty string
IsDigit(s) == s # <<>> /\ \A k \in 1..Len(s) : s[k] \in Digits

-----------------------------------------------------------------------------
(* The threshold filters: steps 1 to 5 of _filter_irrelevant_elements *)

\* the body of the wall loop: TRUE when the wall is appended
WallKept(wall) ==
    IF wall.type = "unknown" THEN FALSE
    ELSE IF TruthyDict(wall, "properties")
    THEN IF Get(wall.properties, "length_meters", 0) < MIN_WALL_LENGTH
         THEN FALSE
         ELSE IF TruthyNum(wall, "thickness_meters")
                    /\ wall.thickness_meters < MIN_WALL_THICKNESS
         THEN FALSE
         ELSE TRUE
    ELSE TRUE

\* the wall loop written as a removal from the list it iterates over: the
\* entry after a removed one is stepped over
RECURSIVE RemoveWallsInPlace(_, _)
RemoveWallsInPlace(walls, k) ==
    IF k > Len(walls) THEN walls
    ELSE IF WallKept(walls[k]) THEN RemoveWallsInPlace(walls, k + 1)
    ELSE RemoveWallsInPlace(SubSeq(walls, 1, k - 1)
                               \o SubSeq(walls, k + 1, Len(walls)), k + 1)

FilterWallsInPlace(walls) == DictAll(RemoveWallsInPlace(walls, 1))

FilterWalls(walls) == DictAll(SelectSeq(walls, WallKept))

RoomKept(room) ==
    IF room.name = "unknown" /\ "room_type" \in DOMAIN room
                             /\ room.room_type = "unknown"
    THEN FALSE
    ELSE IF room.area_m2 < MIN_ROOM_AREA THEN FALSE
    ELSE TRUE

FilterRooms(rooms) == DictAll(SelectSeq(rooms, RoomKept))

\* the type test lost: only the confidence is looked at
ComponentKeptAnyType(component) ==
    IF component.confidence < MIN_COMPONENT_CONFIDENCE THEN FALSE
    ELSE TRUE

\* a confidence threshold that also drops the entries at the threshold
ComponentKeptAbove(component) ==
    IF component.type = "unknown" THEN FALSE
    ELSE IF component.confidence <= MIN_COMPONENT_CONFIDENCE THEN FALSE
    ELSE TRUE

ComponentKept(component) ==
    IF component.type = "unknown" THEN FALSE
    ELSE IF component.confidence < MIN_COMPONENT_CONFIDENCE THEN FALSE
    ELSE TRUE

FilterComponents(components) == DictAll(SelectSeq(components, ComponentKept))

SymbolKept(symbol) ==
    IF symbol.type = "unknown" THEN FALSE
    ELSE IF symbol.confidence < MIN_SYMBOL_CONFIDENCE THEN FALSE
    ELSE TRUE

FilterSymbols(symbols) == DictAll(SelectSeq(symbols, SymbolKept))

TextKept(text) ==
    LET text_content == Strip(text.text)
    IN  IF text_content = <<>> THEN FALSE
        ELSE IF text.font_size < MIN_TEXT_SIZE THEN FALSE
        ELSE IF Len(text_content) > MAX_TEXT_LENGTH THEN FALSE
        ELSE IF IsDigit(Unpunctuated(text_content)) THEN FALSE
        ELSE TRUE

FilterTexts(texts) == DictAll(SelectSeq(texts, TextKept))

(* Inputs of the filters *)

MaxFilterLen == 2

Walls ==
    WithOptional([type : {"wall", "unknown"},
                  thickness_meters : {0, 4, 5},
                  properties : {EmptyDict, [material |-> "brick"],
                                [length_meters |-> 99],
                                [length_meters |-> 100]},
                  wall_type : {"interior"}],
                 {"thickness_meters", "properties"})

Rooms ==
    WithOptional([name : {"unknown", "Kitchen"},
                  room_type : {"unknown", "kitchen"},
                  area_m2 : {99, 100},
                  polygon : {<<>>}],
                 {"room_type"})

Components ==
    WithOptional([type : {"unknown", "door"},
                  position : {[x |-> 0, y |-> 0]},
                  confidence : {299, 300}],
                 {"position"})

Symbols ==
    WithOptional([type : {"unknown", "socket"},
                  position : {[x |-> 0, y |-> 0]},
                  confidence : {299, 300}],
                 {"position"})

Repeat(c, n) == [k \in 1..n |-> c]

Strings ==
    { <<>>, <<" ", " ">>, <<"1", "2", ".", "5">>, <<" ", "B", "1", " ">>,
      <<".">>, Repeat("a", MAX_TEXT_LENGTH + 1),
      <<" ">> \o Repeat("a", MAX_TEXT_LENGTH) \o <<" ">> }

Texts == [text : Strings, font_size : {MIN_TEXT_SIZE - 1, MIN_TEXT_SIZE}]

Categories == {"walls", "rooms", "components", "symbols", "texts"}

Entities(category) ==
    CASE category = "walls" -> Walls
      [] category = "rooms" -> Rooms
      [] category = "components" -> Components
      [] category = "symbols" -> Symbols
      [] category = "texts" -> Texts

Fields(category) ==
    CASE category = "walls" -> WallFields
      [] category = "rooms" -> RoomFields
      [] category = "components" -> ComponentFields
      [] category = "symbols" -> SymbolFields
      [] category = "texts" -> TextItemFields

Filter(category, list) ==
    CASE category = "walls" -> FilterWalls(list)
      [] category = "rooms" -> FilterRooms(list)
      [] category = "components" -> FilterComponents(list)
      [] category = "symbols" -> FilterSymbols(list)
      [] category = "texts" -> FilterTexts(list)

InitFilters ==
    /\ \E category \in Categories :
       \E raw \in SeqsUpTo(Entities(category), MaxFilterLen) :
          filt = [pc |-> "start", category |-> category, raw |-> raw,
                  out |-> <<>>, again |-> <<>>]
    /\ dedup = Idle /\ page = Idle /\ req = Idle

\* the filter of a category applied to a list of objects
Apply(category) ==
    /\ filt.pc = "start" /\ filt.category = category
    /\ filt' = [filt EXCEPT !.pc = "filtered",
                            !.out = Filter(category, filt.raw)]
    /\ UNCHANGED <<dedup, page, req>>

\* the same filter applied to the objects made from its own output
Reapply(category) ==
    /\ filt.pc = "filtered" /\ filt.category = category
    /\ filt' = [filt EXCEPT
                  !.pc = "refiltered",
                  !.again = Filter(category,
                                   ParseAll(filt.out, Fields(category)))]
    /\ UNCHANGED <<dedup, page, req>>

ApplyWalls == Apply("walls")
ApplyRooms == Apply("rooms")
ApplyComponents == Apply("components")
ApplySymbols == Apply("symbols")
ApplyTexts == Apply("texts")
ReapplyWalls == Reapply("walls")
ReapplyRooms == Reapply("rooms")
ReapplyComponents == Reapply("components")
ReapplySymbols == Reapply("symbols")
ReapplyTexts == Reapply("texts")

NextFilters ==
    \/ ApplyWalls \/ ApplyRooms \/ ApplyComponents \/ ApplySymbols
    \/ ApplyTexts
    \/ ReapplyWalls \/ ReapplyRooms \/ ReapplyComponents \/ ReapplySymbols
    \/ ReapplyTexts

SpecFilters == InitFilters /\ [][NextFilters]_vars

-----------------------------------------------------------------------------
(* The consistency validator: _validate_data_consistency *)

NoWallReference(type) == <<"Component", type, "has no wall reference">>
InvalidPolygon(name) ==
    <<"Room", name, "has invalid polygon (less than 3 points)">>
LargeArea(name, area) == <<"Room", name, "has suspiciously large area", area>>
NoExteriorWalls ==
    <<"No exterior walls detected in a drawing with multiple walls">>

\* check 1, on one component
ComponentErrors(component) ==
    IF /\ Get(component, "type", "") \in {"door", "window", "sliding_door"}
       /\ ~("wall_reference" \in DOMAIN component
               /\ component.wall_reference # "")
    THEN <<NoWallReference(Get(component, "type", ""))>>
    ELSE <<>>

\* check 2, on one room; 1000 m2 is 1000 * 1000 thousandths
RoomErrors(room) ==
    (IF Len(Get(room, "polygon", <<>>)) < 3
     THEN <<InvalidPolygon(Get(room, "name", ""))>> ELSE <<>>)
    \o
    (IF Get(room, "area_m2", 0) > 1000 * 1000
     THEN <<LargeArea(Get(room, "name", ""), Get(room, "area_m2", 0))>>
     ELSE <<>>)

\* check 3
WallErrors(walls) ==
    LET exterior_count ==
            Cardinality({k \in 1..Len(walls) :
                            Get(walls[k], "wall_type", "") = "exterior"})
    IN  IF exterior_count = 0 /\ Len(walls) > 5 THEN <<NoExteriorWalls>>
        ELSE <<>>

RECURSIVE ComponentsErrors(_, _)
ComponentsErrors(components, n) ==
    IF n = 0 THEN <<>>
    ELSE ComponentsErrors(components, n - 1) \o ComponentErrors(components[n])

RECURSIVE RoomsErrors(_, _)
RoomsErrors(rooms, n) ==
    IF n = 0 THEN <<>>
    ELSE RoomsErrors(rooms, n - 1) \o RoomErrors(rooms[n])

ValidateDataConsistency(walls, rooms, components, symbols) ==
    ComponentsErrors(components, Len(components))
        \o RoomsErrors(rooms, Len(rooms))
        \o WallErrors(walls)

-----------------------------------------------------------------------------
(* One page: _filter_irrelevant_elements *)

FilterIrrelevantElements(page_data, walls, rooms, components, symbols) ==
    LET filtered_walls      == FilterWalls(walls)
        filtered_rooms      == FilterRooms(rooms)
        filtered_components == FilterComponents(components)
        filtered_symbols    == FilterSymbols(symbols)
        unlinked_texts      == FilterTexts(page_data.texts)
        errors == ValidateDataConsistency(filtered_walls, filtered_rooms,
                                          filtered_components, filtered_symbols)
    IN  [walls          |-> filtered_walls,
         rooms          |-> filtered_rooms,
         components     |-> RemoveDuplicateComponents(filtered_components),
         symbols        |-> RemoveDuplicateSymbols(filtered_symbols),
         unlinked_texts |-> unlinked_texts,
         errors         |-> errors]

(* Inputs of a page *)

MaxComponents == 2

PageComponents ==
    WithOptional([type : {"unknown", "door", "sink"},
                  position : {[x |-> 0, y |-> 0]},
                  confidence : {299, 300, 900}],
                 {"position"})

Socket(confidence) ==
    [type |-> "socket", position |-> [x |-> 0, y |-> 0],
     confidence |-> confidence]

PageSymbolLists ==
    { <<>>,
      <<Socket(300)>>,
      <<[Socket(900) EXCEPT !.type = "unknown"], Socket(299), Socket(300)>>,
      <<Socket(300), Socket(900)>>,
      <<[type |-> "socket", confidence |-> 300], Socket(900)>> }

InteriorWall ==
    [type |-> "wall", wall_type |-> "interior", thickness_meters |-> 200,
     properties |-> [length_meters |-> 4000]]

PageRests ==
    { [texts |-> <<>>, walls |-> <<>>, rooms |-> <<>>],
      [texts |-> << [text |-> <<"B", "1">>, font_size |-> 8],
                    [text |-> <<"1", "2">>, font_size |-> 8] >>,
       walls |-> Repeat(InteriorWall, 6),
       rooms |-> << [name |-> "Hall", area_m2 |-> 2000 * 1000,
                     polygon |-> <<>>] >>] }

InitPage ==
    /\ \E rest \in PageRests :
       \E components \in SeqsUpTo(PageComponents, MaxComponents) :
       \E symbols \in PageSymbolLists :
          page = [pc |-> "walls",
                  page_data |-> [texts |-> rest.texts],
                  walls |-> rest.walls, rooms |-> rest.rooms,
                  components |-> components, symbols |-> symbols,
                  filtered_walls |-> <<>>, filtered_rooms |-> <<>>,
                  filtered_components |-> <<>>, filtered_symbols |-> <<>>,
                  unlinked_texts |-> <<>>, errors |-> <<>>,
                  returned |-> <<>>]
    /\ dedup = Idle /\ filt = Idle /\ req = Idle

Step1FilterWalls ==
    /\ page.pc = "walls"
    /\ page' = [page EXCEPT !.pc = "rooms",
                            !.filtered_walls = FilterWalls(page.walls)]
    /\ UNCHANGED <<dedup, filt, req>>

Step2FilterRooms ==
    /\ page.pc = "rooms"
    /\ page' = [page EXCEPT !.pc = "components",
                            !.filtered_rooms = FilterRooms(page.rooms)]
    /\ UNCHANGED <<dedup, filt, req>>

Step3FilterComponents ==
    /\ page.pc = "components"
    /\ page' = [page EXCEPT
                  !.pc = "symbols",
                  !.filtered_components = FilterComponents(page.components)]
    /\ UNCHANGED <<dedup, filt, req>>

Step4FilterSymbols ==
    /\ page.pc = "symbols"
    /\ page' = [page EXCEPT !.pc = "texts",
                            !.filtered_symbols = FilterSymbols(page.symbols)]
    /\ UNCHANGED <<dedup, filt, req>>

Step5FilterTexts ==
    /\ page.pc = "texts"
    /\ page' = [page EXCEPT
                  !.pc = "validate",
                  !.unlinked_texts = FilterTexts(page.page_data.texts)]
    /\ UNCHANGED <<dedup, filt, req>>

Step6Validate ==
    /\ page.pc = "validate"
    /\ page' = [page EXCEPT
                  !.pc = "duplicates",
                  !.errors = @ \o ValidateDataConsistency(
                                      page.filtered_walls, page.filtered_rooms,
                                      page.filtered_components,
                                      page.filtered_symbols)]
    /\ UNCHANGED <<dedup, filt, req>>

FinalRemoveDuplicates ==
    /\ page.pc = "duplicates"
    /\ page' = [page EXCEPT
                  !.pc = "return",
                  !.filtered_symbols = RemoveDuplicateSymbols(@),
                  !.filtered_components = RemoveDuplicateComponents(@)]
    /\ UNCHANGED <<dedup, filt, req>>

ReturnPage ==
    /\ page.pc = "return"
    /\ page' = [page EXCEPT
                  !.pc = "done",
                  !.returned = [walls          |-> page.filtered_walls,
                                rooms          |-> page.filtered_rooms,
                                components     |-> page.filtered_components,
                                symbols        |-> page.filtered_symbols,
                                unlinked_texts |-> page.unlinked_texts,
                                errors         |-> page.errors]]
    /\ UNCHANGED <<dedup, filt, req>>

NextPage ==
    \/ Step1FilterWalls \/ Step2FilterRooms \/ Step3FilterComponents
    \/ Step4FilterSymbols \/ Step5FilterTexts \/ Step6Validate
    \/ FinalRemoveDuplicates \/ ReturnPage

SpecPage == InitPage /\ [][NextPage]_vars

\* the step-wise run and the function agree
PageAgrees ==
    page.pc = "done" =>
        page.returned = FilterIrrelevantElements(page.page_data, page.walls,
                            page.rooms, page.components, page.symbols)

-----------------------------------------------------------------------------
(* The request: filter_data *)

\* a page's list of a category for a page past the end of the array, which
\* is given the list of the array's last page
PageEntryOrLast(array, i) ==
    IF i < Len(array) THEN array[i + 1]
    ELSE IF array # <<>> THEN array[Len(array)] ELSE <<>>

\* request.walls[i] if i < len(request.walls) else [], i counted from 0
PageEntry(array, i) == IF i < Len(array) THEN array[i + 1] ELSE <<>>

\* the body of the loop over enumerate(request.pages): the bundle appended
PageResult(request, i) ==
    LET page_data  == request.pages[i + 1]
        walls      == PageEntry(request.walls, i)
        rooms      == PageEntry(request.rooms, i)
        components == PageEntry(request.components, i)
        symbols    == PageEntry(request.symbols, i)
        filtered   == FilterIrrelevantElements(page_data, walls, rooms,
                                               components, symbols)
    IN  [page_number    |-> page_data.page_number,
         walls          |-> filtered.walls,
         rooms          |-> filtered.rooms,
         components     |-> filtered.components,
         symbols        |-> filtered.symbols,
         unlinked_texts |-> filtered.unlinked_texts,
         errors         |-> filtered.errors]

(* Inputs of a request *)

MaxPages == 2

RequestPages ==
    [page_number : {3, 7},
     texts : {<< [text |-> <<"B", "1">>, font_size |-> 8] >>}]

RequestWalls == { <<InteriorWall>>, <<[InteriorWall EXCEPT !.type = "unknown"]>> }

RequestRooms ==
    { << [name |-> "Hall", area_m2 |-> 2000 * 1000, polygon |-> <<>>] >> }

RequestComponents ==
    { << [type |-> "door", position |-> [x |-> 0, y |-> 0],
          confidence |-> 900] >>,
      << [type |-> "sink", confidence |-> 299] >> }

RequestSymbols == { <<Socket(300), Socket(900)>> }

InitRequest ==
    /\ \E pages \in SeqsUpTo(RequestPages, MaxPages) :
       \E walls \in SeqsUpTo(RequestWalls, MaxPages) :
       \E rooms \in SeqsUpTo(RequestRooms, MaxPages) :
       \E components \in SeqsUpTo(RequestComponents, MaxPages) :
       \E symbols \in SeqsUpTo(RequestSymbols, MaxPages) :
          req = [pc |-> "loop",
                 request |-> [pages |-> pages, walls |-> walls,
                              rooms |-> rooms, components |-> components,
                              symbols |-> symbols, scale_m_per_pixel |-> 1],
                 i |-> 0, results |-> <<>>, response |-> <<>>]
    /\ dedup = Idle /\ filt = Idle /\ page = Idle

\* one iteration of the loop
FilterDataPage ==
    /\ req.pc = "loop"
    /\ req.i < Len(req.request.pages)
    /\ req' = [req EXCEPT
                 !.results = Append(@, PageResult(req.request, req.i)),
                 !.i = @ + 1]
    /\ UNCHANGED <<dedup, filt, page>>

\* return {"pages": results}
FilterDataReturn ==
    /\ req.pc = "loop"
    /\ req.i = Len(req.request.pages)
    /\ req' = [req EXCEPT !.pc = "done",
                          !.response = [pages |-> req.results]]
    /\ UNCHANGED <<dedup, filt, page>>

NextRequest == FilterDataPage \/ FilterDataReturn

SpecRequest == InitRequest /\ [][NextRequest]_vars

-----------------------------------------------------------------------------
(* Properties of the duplicate resolver, checked under SpecDedup *)

Done == dedup.pc = "done"

Conf(m) == m.val.confidence

Positioned(item) == "position" \in DOMAIN item /\ DOMAIN item.position # {}

PosOf(item) ==
    IF "position" \in DOMAIN item
    THEN << IF "x" \in DOMAIN item.position THEN item.position.x ELSE 0,
            IF "y" \in DOMAIN item.position THEN item.position.y ELSE 0 >>
    ELSE <<0, 0>>

Near(p, q) == Abs(p[1] - q[1]) < 10 /\ Abs(p[2] - q[2]) < 10

OutRefs == {dedup.unique[k].ref : k \in 1..Len(dedup.unique)}

\* the entries that started a group: the first member of each group
Seeds == {dedup.position_groups[g].group[1].ref :
             g \in 1..Len(dedup.position_groups)}

\* C1: when the resolver returns, every input entry that lacks a position is
\* in its output, whatever else the input holds.
C1_PositionlessKept ==
    Done => \A i \in 1..Len(dedup.items) :
                ~Positioned(dedup.items[i]) => i \in OutRefs

\* a run of C1's case: a returned call whose input held a positionless entry
C1_Case ==
    Done /\ \E i \in 1..Len(dedup.items) : ~Positioned(dedup.items[i])

\* C2: when the resolver returns, the output holds exactly one entry per
\* group; for a group of several members it is the member of maximum
\* confidence, the first such member in scan order on a tie; a group of one
\* member gives that member; every output entry is an input entry, unmodified.
C2_OneWinnerPerGroup ==
    Done =>
      /\ Len(dedup.unique) = Len(dedup.position_groups)
      /\ \A k \in 1..Len(dedup.unique) :
            /\ dedup.unique[k].ref \in 1..Len(dedup.items)
            /\ dedup.unique[k].val = dedup.items[dedup.unique[k].ref]
            /\ \A l \in 1..Len(dedup.unique) :
                  dedup.unique[l].ref = dedup.unique[k].ref => l = k
      /\ \A g \in 1..Len(dedup.position_groups) :
            LET grp == dedup.position_groups[g].group
                won == {m \in 1..Len(grp) : grp[m].ref \in OutRefs}
            IN  /\ Cardinality(won) = 1
                /\ \A m \in won :
                      /\ grp[m] \in Range(dedup.unique)
                      /\ \A n \in 1..Len(grp) : Conf(grp[n]) <= Conf(grp[m])
                      /\ \A n \in 1..(m - 1) : Conf(grp[n]) < Conf(grp[m])

\* a returned call with a group of three whose maximum is shared by the
\* second and third member
C2_Witness ==
    /\ Done
    /\ \E g \in 1..Len(dedup.position_groups) :
          LET grp == dedup.position_groups[g].group
          IN  /\ Len(grp) = 3
              /\ Conf(grp[1]) < Conf(grp[2])
              /\ Conf(grp[2]) = Conf(grp[3])
              /\ grp[2].ref \in OutRefs

\* one iteration of the scan loop, stated from the groups before and after
FirstFitStep ==
    (dedup.pc = "scan" /\ dedup'.pc = "scan" /\ dedup'.scan = dedup.scan + 1) =>
      LET i    == dedup.scan
          it   == dedup.items[i]
          pg   == dedup.position_groups
          pg2  == dedup'.position_groups
          hits == {g \in 1..Len(pg) : Near(PosOf(it), pg[g].key)}
      IN  IF ~Positioned(it) THEN pg2 = pg
          ELSE IF hits # {}
          THEN LET g == CHOOSE h \in hits : \A h2 \in hits : h <= h2
               IN  /\ Len(pg2) = Len(pg)
                   /\ \A h \in 1..Len(pg) :
                         /\ pg2[h].key = pg[h].key
                         /\ pg2[h].group =
                              IF h = g
                              THEN Append(pg[h].group, [ref |-> i, val |-> it])
                              ELSE pg[h].group
          ELSE pg2 = Append(pg, [key   |-> PosOf(it),
                                 group |-> <<[ref |-> i, val |-> it]>>])

\* a group's representative is the position of its first member
RepresentativeIsFirstMember ==
    \A g \in 1..Len(dedup.position_groups) :
        /\ dedup.position_groups[g].group # <<>>
        /\ dedup.position_groups[g].key =
              PosOf(dedup.position_groups[g].group[1].val)

\* what becomes of the entries that started a group
SeedsOutcome ==
    Done =>
      /\ Cardinality(Seeds) = Len(dedup.position_groups)
      /\ Cardinality(OutRefs) = Len(dedup.position_groups)
      /\ \A g \in 1..Len(dedup.position_groups) :
            LET grp == dedup.position_groups[g].group
            IN  grp[1].ref \in OutRefs <=>
                    \A n \in 2..Len(grp) : Conf(grp[n]) <= Conf(grp[1])

\* C3 (amended): each positioned entry joins the first group, in creation
\* order, whose representative is less than 10 away on both axes, and starts
\* a new group at its own position when there is none; a representative is
\* the position of the group's first member and never changes; two entries
\* that are 10 or more away from every existing representative start two
\* groups, each of which gives one output entry, and each of the two is that
\* entry unless a later member of its group has a greater confidence.
C3_FirstFit ==
    /\ [][FirstFitStep]_vars
    /\ []RepresentativeIsFirstMember
    /\ []SeedsOutcome

\* C3 as claimed: two entries that are 10 or more away from every existing
\* representative are both in the output.
C3_SeedsBothSurvive ==
    Done => \A i \in Seeds : \A j \in Seeds :
                i # j => (i \in OutRefs /\ j \in OutRefs)

\* a returned call in which an entry that fitted two groups went to the
\* first, and a later member took the place of the entry that started it
C3_Witness ==
    /\ Done
    /\ Len(dedup.position_groups) = 2
    /\ \E g \in 1..2 :
          LET grp == dedup.position_groups[g].group
          IN  Len(grp) = 2 /\ grp[1].ref \notin OutRefs
    /\ Len(dedup.position_groups[1].group) = 2
    /\ Near(PosOf(dedup.position_groups[1].group[2].val),
            dedup.position_groups[2].key)
    /\ dedup.position_groups[2].group[1].ref
          < dedup.position_groups[1].group[2].ref

\* C10 as claimed: no two entries of the output are less than 10 apart on
\* both axes, and the resolver applied to its own output removes nothing.
C10_SurvivorsApart ==
    Done =>
      /\ \A a \in Range(dedup.unique) : \A b \in Range(dedup.unique) :
            a.ref # b.ref => ~Near(PosOf(a.val), PosOf(b.val))
      /\ Len(RemoveDuplicates(Vals(dedup.unique))) = Len(dedup.unique)

\* C10 (amended): the representatives of the groups are 10 or more apart on
\* some axis, pairwise, and every output entry is the one entry kept of a
\* group whose representative is less than 10 away from it on both axes.
C10_RepresentativesApart ==
    Done =>
      /\ \A g \in 1..Len(dedup.position_groups) :
         \A h \in 1..Len(dedup.position_groups) :
            g # h => ~Near(dedup.position_groups[g].key,
                           dedup.position_groups[h].key)
      /\ \A a \in Range(dedup.unique) :
            /\ Positioned(a.val)
            /\ Cardinality({g \in 1..Len(dedup.position_groups) :
                              a \in Range(dedup.position_groups[g].group)}) = 1
            /\ \A g \in 1..Len(dedup.position_groups) :
                  a \in Range(dedup.position_groups[g].group)
                      => Near(PosOf(a.val), dedup.position_groups[g].key)

\* a returned call with two output entries less than 10 apart on both axes
C10_Witness ==
    /\ Done
    /\ \E a \in Range(dedup.unique) : \E b \in Range(dedup.unique) :
          a.ref # b.ref /\ Near(PosOf(a.val), PosOf(b.val))

-----------------------------------------------------------------------------
(* Properties of the threshold filters, checked under SpecFilters *)

WallsFiltered == filt.category = "walls" /\ filt.pc # "start"

HasLength(wall) ==
    "properties" \in DOMAIN wall /\ "length_meters" \in DOMAIN wall.properties

HasThickness(wall) == "thickness_meters" \in DOMAIN wall

\* C4: every wall of the filtered wall list has a type other than "unknown",
\* a length of at least 0.1 if it has a length and a thickness of at least
\* 0.005 if it has a thickness, whatever other attributes it has.
C4_SurvivingWallsMeetThresholds ==
    WallsFiltered =>
      \A k \in 1..Len(filt.out) :
         LET wall == filt.out[k]
         IN  /\ wall.type # "unknown"
             /\ HasLength(wall) => wall.properties.length_meters >= 100
             /\ HasThickness(wall) => wall.thickness_meters >= 5

\* C5: a wall whose type is not "unknown" is kept when it has no length and
\* any thickness it has is at least 0.005, and when it has no thickness and
\* any length it has is at least 0.1.
C5_MissingAttributeNeverRejects ==
    WallsFiltered =>
      \A k \in 1..Len(filt.raw) :
         LET wall == filt.raw[k]
         IN  /\ ( /\ wall.type # "unknown"
                  /\ ~HasLength(wall)
                  /\ HasThickness(wall) => wall.thickness_meters >= 5 )
                => wall \in Range(filt.out)
             /\ ( /\ wall.type # "unknown"
                  /\ ~HasThickness(wall)
                  /\ HasLength(wall) => wall.properties.length_meters >= 100 )
                => wall \in Range(filt.out)

\* C9: a filter applied to its own output gives that output again, for each
\* of the five categories and every input list.
C9_FilterIdempotent ==
    filt.pc = "refiltered" => filt.again = filt.out

\* a list of texts of which the filter dropped one and kept one, filtered
\* a second time
C9_Witness ==
    /\ filt.pc = "refiltered"
    /\ filt.category = "texts"
    /\ Len(filt.raw) = 2
    /\ Len(filt.out) = 1
    /\ Len(filt.again) = 1

-----------------------------------------------------------------------------
(* Properties of a page, checked under SpecPage *)

\* a door, window or sliding door that passes the component thresholds;
\* no component carries a wall reference, the schema having none
UnreferencedOpening(component) ==
    /\ component.type \in {"door", "window", "sliding_door"}
    /\ "wall_reference" \notin DOMAIN component
    /\ component.type # "unknown"
    /\ component.confidence >= 300

\* C6 as claimed: such a component is in the returned component list and
\* the returned diagnostics hold a message naming its type.  It is stated
\* for the components that have a position, which C1_PositionlessKept does
\* not concern.
C6_OpeningKeptInReturnedList ==
    page.pc = "done" =>
      \A k \in 1..Len(page.components) :
         ( /\ UnreferencedOpening(page.components[k])
           /\ "position" \in DOMAIN page.components[k] ) =>
            /\ page.components[k] \in Range(page.returned.components)
            /\ <<"Component", page.components[k].type, "has no wall reference">>
                  \in Range(page.returned.errors)

\* what the validator is given and what it leaves
OpeningValidated ==
    \A k \in 1..Len(page.components) :
       UnreferencedOpening(page.components[k]) =>
          /\ page.pc = "duplicates" =>
                /\ page.components[k] \in Range(page.filtered_components)
                /\ <<"Component", page.components[k].type,
                     "has no wall reference">> \in Range(page.errors)
          /\ page.pc = "done" =>
                <<"Component", page.components[k].type,
                  "has no wall reference">> \in Range(page.returned.errors)

ValidatorRemovesNothing ==
    page.pc = "validate" =>
      /\ page'.filtered_walls = page.filtered_walls
      /\ page'.filtered_rooms = page.filtered_rooms
      /\ page'.filtered_components = page.filtered_components
      /\ page'.filtered_symbols = page.filtered_symbols
      /\ page'.unlinked_texts = page.unlinked_texts

\* C6 (amended): such a component is in the filtered component list that
\* the validator is given, and the page's diagnostics, as validated and as
\* returned, hold a message naming its type; the validator removes no entry
\* of any list.  (The duplicate resolver, which runs after the validator,
\* may still drop the component from the returned list.)
C6_OpeningValidatedAndReported ==
    /\ []OpeningValidated
    /\ [][ValidatorRemovesNothing]_vars

\* a returned page whose diagnostics name a door that passed the thresholds
\* and that the returned component list no longer holds
C6_Witness ==
    /\ page.pc = "done"
    /\ \E k \in 1..Len(page.components) :
          /\ UnreferencedOpening(page.components[k])
          /\ "position" \in DOMAIN page.components[k]
          /\ page.components[k] \notin Range(page.returned.components)
          /\ <<"Component", "door", "has no wall reference">>
                \in Range(page.returned.errors)

\* C8: every component and every symbol of the returned bundle has a
\* confidence of at least 0.3 and a type other than "unknown", and is an
\* entry of the page's input, unchanged.
C8_ReturnedEntriesPassThresholds ==
    page.pc = "done" =>
      /\ \A c \in Range(page.returned.components) :
            /\ c.confidence >= 300
            /\ c.type # "unknown"
            /\ c \in Range(page.components)
      /\ \A y \in Range(page.returned.symbols) :
            /\ y.confidence >= 300
            /\ y.type # "unknown"
            /\ y \in Range(page.symbols)

\* a returned page with a component and a symbol returned, and a component
\* and a symbol of the input below the confidence threshold
C8_Witness ==
    /\ page.pc = "done"
    /\ page.returned.components # <<>>
    /\ page.returned.symbols # <<>>
    /\ \E c \in Range(page.components) :
          c.confidence < 300 /\ c.type # "unknown"
    /\ \E y \in Range(page.symbols) : y.confidence < 300

-----------------------------------------------------------------------------
(* Properties of a request, checked under SpecRequest *)

\* the k-th list of an array of per-page lists, empty past its end
ListOfPage(array, k) == IF k <= Len(array) THEN array[k] ELSE <<>>

\* C7: the response to a request of N pages holds N bundles; the k-th has the
\* page number of the k-th page and is what the page filter gives for the
\* k-th page and the k-th lists of walls, rooms, components and symbols; a
\* page past the end of one of these arrays has the empty list for it.
C7_OneBundlePerPage ==
    req.pc = "done" =>
      /\ Len(req.response.pages) = Len(req.request.pages)
      /\ \A k \in 1..Len(req.request.pages) :
            LET bundle == req.response.pages[k]
                alone  == FilterIrrelevantElements(
                              req.request.pages[k],
                              ListOfPage(req.request.walls, k),
                              ListOfPage(req.request.rooms, k),
                              ListOfPage(req.request.components, k),
                              ListOfPage(req.request.symbols, k))
            IN  /\ bundle.page_number = req.request.pages[k].page_number
                /\ bundle.walls = alone.walls
                /\ bundle.rooms = alone.rooms
                /\ bundle.components = alone.components
                /\ bundle.symbols = alone.symbols
                /\ bundle.unlinked_texts = alone.unlinked_texts
                /\ bundle.errors = alone.errors
                /\ k > Len(req.request.walls) => bundle.walls = <<>>
                /\ k > Len(req.request.rooms) => bundle.rooms = <<>>
                /\ k > Len(req.request.components) => bundle.components = <<>>
                /\ k > Len(req.request.symbols) => bundle.symbols = <<>>

\* a response to two pages with one list of walls and one of components,
\* both kept on the first page
C7_Witness ==
    /\ req.pc = "done"
    /\ Len(req.request.pages) = 2
    /\ Len(req.request.walls) = 1
    /\ Len(req.request.components) = 1
    /\ req.response.pages[1].walls # <<>>
    /\ req.response.pages[1].components # <<>>
    /\ req.response.pages[2].walls = <<>>
    /\ req.response.pages[2].components = <<>>
    /\ req.response.pages[1].page_number # req.response.pages[2].page_number

=============================================================================
